---- MODULE Spec2Model ----
(***************************************************************************)
(* Model of src/excel_streamlit.py: the Excel auto-sync tool.              *)
(*                                                                         *)
(* Three execution contexts touch st.session_state and the two files:      *)
(*   "ui"      the Streamlit script run serving a button click             *)
(*             (Sync Now -> perform_sync, Auto-Sync -> toggle_sync);       *)
(*   "watcher" the watchdog Observer thread running                        *)
(*             SyncHandler.on_modified;                                    *)
(*   "poll"    the script run that stays inside periodic_check after       *)
(*             start_sync called it.                                       *)
(* perform_sync takes no lock, so its statements interleave freely between *)
(* the three.  Every step below is one statement (or a run of statements   *)
(* touching only locals) of the source.                                    *)
(*                                                                         *)
(* Time.  The program uses time.time() only in differences and             *)
(* comparisons, so every stored time is kept relative to the present:      *)
(* time.time() reads 0, a time one second back is -1, and Tick, one second *)
(* passing, moves every stored time one second further back.  A stored     *)
(* time older than any comparison can tell apart stays at that age, which  *)
(* is also where the program's initial 0, the year 1970,                   *)
(* lies.                                                                   *)
(*                                                                         *)
(* log() only writes log_messages, which no statement of the sync logic    *)
(* reads (the page renders it).  The steps below name the log calls they   *)
(* stand for in their comments and leave log_messages as it is; log itself *)
(* is the operator Log, and its statements, interleaved between the        *)
(* contexts, are the steps of SpecLog.  st.success / st.info / st.error    *)
(* only draw on the page and change no state.                              *)
(*                                                                         *)
(* A spreadsheet is a record [kind, cols, rows]: cols the header row, rows *)
(* a sequence of rows aligned with cols; kind "absent" is a path with no   *)
(* file.  Cell values are strings, NaN being pandas' missing value.        *)
(***************************************************************************)
EXTENDS Integers, Sequences, FiniteSets, TLC

VARIABLES
    sync_active,    \* st.session_state.sync_active
    last_hash,      \* st.session_state.last_hash
    last_sync_time, \* st.session_state.last_sync_time (seconds, relative to now)
    observer,       \* st.session_state.observer: "none" | "running" | "stopping" | "stopped"
    log_messages,   \* st.session_state.log_messages
    srcFile,        \* the file at source_path
    tgtFile,        \* the file at target_path
    last_trigger,   \* SyncHandler.last_trigger (relative to now)
    pc,             \* per context: the statement it is at
    start_time,     \* per context: perform_sync's time.time() of lines 67-68
    frame,          \* per context: perform_sync's df_source / df_target / update_count
    hash_local,     \* per context: new_hash (on_modified), current_hash (periodic_check)
    wake            \* end of periodic_check's time.sleep(5) (relative to now)

vars == <<sync_active, last_hash, last_sync_time, observer, log_messages,
          srcFile, tgtFile, last_trigger, pc, start_time, frame,
          hash_local, wake>>

----------------------------------------------------------------------------
(* Bounds of the model and constants of the program *)

MaxRows == 2
Cooldown == 2
Debounce == 3
PollInterval == 5
LogCapacity == 20

Threads == {"ui", "watcher", "poll"}

\* time.time(): the present
now == 0

\* The time from which on line 64 reads a last_sync_time as out of cooldown,
\* and line 116 a last_trigger as out of the debounce window: older stored
\* times behave alike, and are kept there.
SyncLongAgo == now - Cooldown
TriggerLongAgo == now - (Debounce + 1)

\* A stored time t, one second later: one second further back, down to old.
Earlier(t, old) == IF t - 1 < old THEN old ELSE t - 1

NaN == "nan"
\* Row keys are present values: a missing key matches nothing at line 82.
Keys == {"X", "Y"}
Values == {NaN, "5", "6"}
None == <<>>

----------------------------------------------------------------------------
(* Spreadsheets *)

Absent == [kind |-> "absent", cols |-> <<>>, rows |-> <<>>]

Sheet(cols, rows) == [kind |-> "xlsx", cols |-> cols, rows |-> rows]

\* pd.read_excel: the DataFrame of a workbook (header row, then data rows).
read_excel(file) == [cols |-> file.cols, rows |-> file.rows]

\* DataFrame.to_excel(path, index=False): header row, then the rows; a
\* missing value is written as an empty cell and read back as missing.
to_excel(df) == [kind |-> "xlsx", cols |-> df.cols, rows |-> df.rows]

\* os.path.exists
exists(file) == file.kind # "absent"

\* hashlib.md5(bytes).hexdigest(): a function of the content, taken to be
\* injective on the contents that occur.
md5(file) == <<file>>

\* Without the try / except of lines 36-40: a digest whatever the path holds.
md5_unguarded(file) == md5(file)

\* lines 35-40: the digest, or None when the file cannot be opened.
get_file_hash(file) == IF exists(file) THEN md5(file) ELSE None

\* pd.isna
isna(v) == v = NaN

----------------------------------------------------------------------------
(* perform_sync, lines 74-89: the reconciliation of two DataFrames *)

\* keep='first' in place of keep='last'.
RECURSIVE KeepFirst(_, _)
KeepFirst(rows, i) ==
    IF i > Len(rows) THEN <<>>
    ELSE IF \E j \in 1..(i-1) : rows[j][1] = rows[i][1]
         THEN KeepFirst(rows, i + 1)
         ELSE <<rows[i]>> \o KeepFirst(rows, i + 1)

\* drop_duplicates(subset=[first column], keep='last'): the rows that no
\* later row shares the key of, in their order.
RECURSIVE KeepLast(_, _)
KeepLast(rows, i) ==
    IF i > Len(rows) THEN <<>>
    ELSE IF \E j \in (i+1)..Len(rows) : rows[j][1] = rows[i][1]
         THEN KeepLast(rows, i + 1)
         ELSE <<rows[i]>> \o KeepLast(rows, i + 1)

drop_duplicates(df) == [cols |-> df.cols, rows |-> KeepLast(df.rows, 1)]

\* set_index(first column).to_dict('index'): key -> (column -> value).
to_dict_index(df) ==
    [k \in {df.rows[i][1] : i \in 1..Len(df.rows)} |->
        LET i == CHOOSE i \in 1..Len(df.rows) : df.rows[i][1] = k
        IN  [c \in {df.cols[n] : n \in 2..Len(df.cols)} |->
                df.rows[i][CHOOSE n \in 2..Len(df.cols) : df.cols[n] = c]]]

SourceMap(df_source) == to_dict_index(drop_duplicates(df_source))

\* source_map[name].get(col) in place of the test of line 84: a column the
\* source lacks reads as missing.
UpdateCellGet(st, source_map, idx, n) ==
    LET col  == st.df.cols[n]
        name == st.df.rows[idx][1]
        old_value == st.df.rows[idx][n]
        new_value == IF col \in DOMAIN source_map[name]
                     THEN source_map[name][col] ELSE NaN
    IN  IF isna(old_value) \/ old_value # new_value
        THEN [df |-> [st.df EXCEPT !.rows[idx][n] = new_value],
              update_count |-> st.update_count + 1]
        ELSE st

\* lines 84-89 for the cell (idx, n): the inner loop's body.
UpdateCell(st, source_map, idx, n) ==
    LET col  == st.df.cols[n]
        name == st.df.rows[idx][1]
    IN  IF col \in DOMAIN source_map[name]
        THEN LET old_value == st.df.rows[idx][n]
                 new_value == source_map[name][col]
             IN  IF isna(old_value) \/ old_value # new_value
                 THEN [df |-> [st.df EXCEPT !.rows[idx][n] = new_value],
                       update_count |-> st.update_count + 1]
                 ELSE st
        ELSE st

\* line 83: for col in df_target.columns[1:]
RECURSIVE UpdateCols(_, _, _, _)
UpdateCols(st, source_map, idx, n) ==
    IF n > Len(st.df.cols) THEN st
    ELSE UpdateCols(UpdateCell(st, source_map, idx, n), source_map, idx, n + 1)

\* lines 80-82: for idx, row in df_target.iterrows(): if name in source_map
RECURSIVE UpdateRows(_, _, _)
UpdateRows(st, source_map, idx) ==
    IF idx > Len(st.df.rows) THEN st
    ELSE IF st.df.rows[idx][1] \in DOMAIN source_map
         THEN UpdateRows(UpdateCols(st, source_map, idx, 2), source_map, idx + 1)
         ELSE UpdateRows(st, source_map, idx + 1)

\* df_source.columns[0] of a sheet without columns raises IndexError (line 75).
HasKeyColumn(df) == Len(df.cols) >= 1

\* update_count >= 0 in place of line 91's test.
AlwaysWrite(update_count) == update_count >= 0

\* line 91
ShouldWrite(update_count) == update_count > 0

\* lines 74-89: [df, update_count] of the updated target.
Reconcile(df_source, df_target) ==
    UpdateRows([df |-> df_target, update_count |-> 0], SourceMap(df_source), 1)

----------------------------------------------------------------------------
(* The files the concurrent specification works on *)

SrcA == Sheet(<<"id", "val">>, << <<"X", "5">> >>)
SrcB == Sheet(<<"id", "val">>, << <<"X", "6">> >>)
TgtA == Sheet(<<"id", "val">>, << <<"X", "5">> >>)

\* What the two paths hold when the session starts: both files, or one missing.
Uploads == {<<SrcA, TgtA>>, <<Absent, TgtA>>, <<SrcA, Absent>>}

NoFrame == [df |-> [cols |-> <<>>, rows |-> <<>>], update_count |-> 0]

----------------------------------------------------------------------------
(* log, lines 28-32 *)

\* list.insert(0, m)
Insert0(list, m) == <<m>> \o list

\* list.pop()
Pop(list) == SubSeq(list, 1, Len(list) - 1)

Log(list, m) ==
    LET inserted == Insert0(list, m)
    IN  IF Len(inserted) > LogCapacity THEN Pop(inserted) ELSE inserted

----------------------------------------------------------------------------
(* Control flow shared by the three contexts *)

\* Where perform_sync returns to: the button handler ends (line 197),
\* on_modified ends (line 122), periodic_check goes on at line 162.
ReturnTo(t) == IF t = "poll" THEN "pc_set" ELSE "idle"

\* Without the except Exception clause of line 104: any other exception
\* leaves perform_sync and ends its caller.
HandlerLockedOnly(exc) ==
    IF exc = "PermissionError" THEN "except_PermissionError"
    ELSE "escaped"

\* except PermissionError / except Exception of lines 101-106: the handler
\* an exception raised inside the try block lands in.
Handler(exc) ==
    IF exc = "PermissionError" THEN "except_PermissionError"
    ELSE "except_Exception"

Goto(t, label) == pc' = [pc EXCEPT ![t] = label]

\* Leaving perform_sync: its locals die with the call.
Return(t) ==
    /\ Goto(t, ReturnTo(t))
    /\ frame' = [frame EXCEPT ![t] = NoFrame]

\* time.time() - last_sync_time < 2 (line 64)
InCooldown == now - last_sync_time < Cooldown

shared == <<sync_active, last_hash, last_sync_time, observer, log_messages>>
files == <<srcFile, tgtFile>>
locals == <<start_time, frame, hash_local>>
clocks == <<wake, last_trigger>>

----------------------------------------------------------------------------
(* perform_sync, lines 62-106, run by context t *)

\* line 64-65
ps_cooldown(t) ==
    /\ pc[t] = "ps_cooldown"
    /\ IF InCooldown THEN Goto(t, ReturnTo(t)) ELSE Goto(t, "ps_clock")
    /\ UNCHANGED <<shared, files, locals, clocks>>

\* line 67, and the time.time() call of line 68
ps_clock(t) ==
    /\ pc[t] = "ps_clock"
    /\ start_time' = [start_time EXCEPT ![t] = now]
    /\ Goto(t, "ps_stamp")
    /\ UNCHANGED <<shared, files, frame, hash_local, clocks>>

\* the store of line 68, and line 69.  start_time is read again only for the
\* elapsed time that line 94 prints, so the model drops it here.
ps_stamp(t) ==
    /\ pc[t] = "ps_stamp"
    /\ last_sync_time' = start_time[t]
    /\ start_time' = [start_time EXCEPT ![t] = SyncLongAgo]
    /\ Goto(t, "ps_read_source")
    /\ UNCHANGED <<sync_active, last_hash, observer, log_messages, files,
                   frame, hash_local, clocks>>

\* line 71
ps_read_source(t) ==
    /\ pc[t] = "ps_read_source"
    /\ IF exists(srcFile)
       THEN /\ frame' = [frame EXCEPT ![t] =
                            [df |-> read_excel(srcFile), update_count |-> 0]]
            /\ Goto(t, "ps_read_target")
       ELSE /\ frame' = frame
            /\ Goto(t, Handler("FileNotFoundError"))
    /\ UNCHANGED <<shared, files, start_time, hash_local, clocks>>

\* lines 72-91: read the target, reconcile in memory, branch on update_count
ps_read_target(t) ==
    /\ pc[t] = "ps_read_target"
    /\ IF ~exists(tgtFile)
       THEN /\ frame' = frame
            /\ Goto(t, Handler("FileNotFoundError"))
       ELSE IF ~HasKeyColumn(frame[t].df)
       THEN /\ frame' = frame
            /\ Goto(t, Handler("IndexError"))
       ELSE LET res == Reconcile(frame[t].df, read_excel(tgtFile))
            IN  /\ frame' = [frame EXCEPT ![t] = res]
                /\ Goto(t, IF ShouldWrite(res.update_count) THEN "ps_write"
                           ELSE "ps_nochange")
    /\ UNCHANGED <<shared, files, start_time, hash_local, clocks>>

\* line 92: the workbook is written, or, being open in another program at
\* that moment, refuses the write with PermissionError.
ps_write(t) ==
    /\ pc[t] = "ps_write"
    /\ \/ /\ tgtFile' = to_excel(frame[t].df)
          /\ Goto(t, "ps_synced")
       \/ /\ tgtFile' = tgtFile
          /\ Goto(t, Handler("PermissionError"))
    /\ UNCHANGED <<shared, srcFile, locals, clocks>>

\* lines 93-96
ps_synced(t) ==
    /\ pc[t] = "ps_synced"
    /\ last_hash' = get_file_hash(srcFile)
    /\ Return(t)
    /\ UNCHANGED <<sync_active, last_sync_time, observer, log_messages, files,
                   start_time, hash_local, clocks>>

\* lines 98-99
ps_nochange(t) ==
    /\ pc[t] = "ps_nochange"
    /\ Return(t)
    /\ UNCHANGED <<shared, files, start_time, hash_local, clocks>>

\* lines 101-103
except_PermissionError(t) ==
    /\ pc[t] = "except_PermissionError"
    /\ Return(t)
    /\ UNCHANGED <<shared, files, start_time, hash_local, clocks>>

\* lines 104-106
except_Exception(t) ==
    /\ pc[t] = "except_Exception"
    /\ Return(t)
    /\ UNCHANGED <<shared, files, start_time, hash_local, clocks>>

perform_sync(t) ==
    \/ ps_cooldown(t)
    \/ ps_clock(t)
    \/ ps_stamp(t)
    \/ ps_read_source(t)
    \/ ps_read_target(t)
    \/ ps_write(t)
    \/ ps_synced(t)
    \/ ps_nochange(t)
    \/ except_PermissionError(t)
    \/ except_Exception(t)

----------------------------------------------------------------------------
(* The "Sync Now" button, lines 196-197 *)

SyncNow ==
    /\ pc["ui"] = "idle"
    /\ Goto("ui", "ps_cooldown")
    /\ UNCHANGED <<shared, files, locals, clocks>>

----------------------------------------------------------------------------
(* SyncHandler.on_modified, lines 113-122, on the observer's thread *)

Events == {"source", "other", "directory"}

\* Without the filter of line 114: any event is taken for the source's.
on_modified_unfiltered(event) ==
    /\ observer = "running"
    /\ pc["watcher"] = "idle"
    /\ IF now - last_trigger > Debounce
       THEN /\ last_trigger' = now
            /\ Goto("watcher", "om_hash")
       ELSE /\ last_trigger' = last_trigger
            /\ pc' = pc
    /\ UNCHANGED <<shared, files, locals, wake>>

\* lines 114-117: the filter and the 3-second debounce
on_modified(event) ==
    /\ observer = "running"
    /\ pc["watcher"] = "idle"
    /\ IF event = "source" /\ now - last_trigger > Debounce
       THEN /\ last_trigger' = now
            /\ Goto("watcher", "om_hash")
       ELSE /\ last_trigger' = last_trigger
            /\ pc' = pc
    /\ UNCHANGED <<shared, files, locals, wake>>

\* lines 118-119
om_hash ==
    /\ pc["watcher"] = "om_hash"
    /\ LET new_hash == get_file_hash(srcFile)
       IN  IF new_hash # None /\ new_hash # last_hash
           THEN /\ hash_local' = [hash_local EXCEPT !["watcher"] = new_hash]
                /\ Goto("watcher", "om_set")
           ELSE /\ hash_local' = hash_local
                /\ Goto("watcher", "idle")
    /\ UNCHANGED <<shared, files, start_time, frame, clocks>>

\* lines 120-122
om_set ==
    /\ pc["watcher"] = "om_set"
    /\ last_hash' = hash_local["watcher"]
    /\ hash_local' = [hash_local EXCEPT !["watcher"] = None]
    /\ Goto("watcher", "ps_cooldown")
    /\ UNCHANGED <<sync_active, last_sync_time, observer, log_messages, files,
                   start_time, frame, clocks>>

----------------------------------------------------------------------------
(* periodic_check, lines 156-165 *)

\* line 157, on entry (the sleep of the round before, if any, is over)
pc_active ==
    /\ pc["poll"] = "pc_active"
    /\ now >= wake
    /\ wake' = now
    /\ IF sync_active THEN Goto("poll", "pc_hash") ELSE Goto("poll", "off")
    /\ UNCHANGED <<shared, files, locals, last_trigger>>

\* lines 158-161; with nothing to do, on to time.sleep(5) of line 163
pc_hash ==
    /\ pc["poll"] = "pc_hash"
    /\ LET current_hash == get_file_hash(srcFile)
       IN  IF current_hash # None /\ current_hash # last_hash
           THEN /\ hash_local' = [hash_local EXCEPT !["poll"] = current_hash]
                /\ Goto("poll", "ps_cooldown")
                /\ wake' = wake
           ELSE /\ hash_local' = hash_local
                /\ Goto("poll", "pc_sleep")
                /\ wake' = now + PollInterval
    /\ UNCHANGED <<shared, files, start_time, frame, last_trigger>>

\* line 162, then the sleep of line 163
pc_set ==
    /\ pc["poll"] = "pc_set"
    /\ last_hash' = hash_local["poll"]
    /\ hash_local' = [hash_local EXCEPT !["poll"] = None]
    /\ wake' = now + PollInterval
    /\ Goto("poll", "pc_sleep")
    /\ UNCHANGED <<sync_active, last_sync_time, observer, log_messages, files,
                   start_time, frame, last_trigger>>

\* lines 163-165: the sleep over, periodic_check calls itself for the next
\* round.  Each round is one more frame on the stack of the script run, and
\* with the stack at the interpreter's recursion limit the call (or
\* st.empty() before it) raises RecursionError, which nothing catches: the
\* loop ends.  The model does not count the frames; the stack may be
\* exhausted at any of these calls.
pc_sleep ==
    /\ pc["poll"] = "pc_sleep"
    /\ now >= wake
    /\ \/ Goto("poll", "pc_active")
       \/ Goto("poll", "crashed")
    /\ UNCHANGED <<shared, files, locals, clocks>>

----------------------------------------------------------------------------
(* The Auto-Sync button: toggle_sync, start_sync, stop_sync, lines 125-154 *)

\* any(...) in place of all(...).
EitherExists == exists(srcFile) \/ exists(tgtFile)

\* line 132: all(os.path.exists(f) for f in [source_path, target_path])
BothExist == exists(srcFile) /\ exists(tgtFile)

\* toggle_sync with auto-sync off (lines 126, 129), then line 132
start_sync ==
    /\ pc["ui"] = "idle"
    /\ ~sync_active
    /\ IF BothExist THEN Goto("ui", "start_flag")
       ELSE Goto("ui", "start_rejected")
    /\ UNCHANGED <<shared, files, locals, clocks>>

\* lines 133-134
start_rejected ==
    /\ pc["ui"] = "start_rejected"
    /\ Goto("ui", "idle")
    /\ UNCHANGED <<shared, files, locals, clocks>>

\* lines 136-137
start_flag ==
    /\ pc["ui"] = "start_flag"
    /\ sync_active' = TRUE
    /\ Goto("ui", "start_watch")
    /\ UNCHANGED <<last_hash, last_sync_time, observer, log_messages, files,
                   locals, clocks>>

\* lines 140-147: a new Observer with a new SyncHandler is started and
\* periodic_check is entered.  The script run stays in periodic_check; the
\* next click is served by a new script run, so "ui" is free again.  A poll
\* loop still alive from an earlier enable goes on as the one poll loop.
start_watch ==
    /\ pc["ui"] = "start_watch"
    /\ observer' = "running"
    /\ last_trigger' = TriggerLongAgo
    /\ pc' = [pc EXCEPT !["ui"] = "idle",
                        !["poll"] = IF @ \in {"off", "crashed"}
                                    THEN "pc_active" ELSE @]
    /\ UNCHANGED <<sync_active, last_hash, last_sync_time, log_messages, files,
                   locals, wake>>

\* toggle_sync with auto-sync on (lines 126-127), then lines 150-151
stop_sync ==
    /\ pc["ui"] = "idle"
    /\ sync_active
    /\ IF observer = "none"
       THEN /\ Goto("ui", "stop_flag")
            /\ observer' = observer
       ELSE /\ Goto("ui", "stop_join")
            /\ observer' = IF observer = "running" THEN "stopping" ELSE observer
    /\ UNCHANGED <<sync_active, last_hash, last_sync_time, log_messages, files,
                   locals, clocks>>

\* line 152: join returns once the observer's thread has left its handler
stop_join ==
    /\ pc["ui"] = "stop_join"
    /\ pc["watcher"] = "idle"
    /\ observer' = "stopped"
    /\ Goto("ui", "stop_flag")
    /\ UNCHANGED <<sync_active, last_hash, last_sync_time, log_messages, files,
                   locals, clocks>>

\* lines 153-154
stop_flag ==
    /\ pc["ui"] = "stop_flag"
    /\ sync_active' = FALSE
    /\ Goto("ui", "idle")
    /\ UNCHANGED <<last_hash, last_sync_time, observer, log_messages, files,
                   locals, clocks>>

----------------------------------------------------------------------------
(* The environment: the clock, and other programs working on the files *)

\* One second passes.
Tick ==
    /\ last_sync_time' = Earlier(last_sync_time, SyncLongAgo)
    /\ last_trigger' = Earlier(last_trigger, TriggerLongAgo)
    /\ start_time' = [t \in Threads |-> Earlier(start_time[t], SyncLongAgo)]
    /\ wake' = IF wake > now THEN wake - 1 ELSE wake
    /\ UNCHANGED <<sync_active, last_hash, observer, log_messages, files,
                   frame, hash_local, pc>>

\* Another program saves a new version of the source workbook.
EditSource ==
    /\ exists(srcFile)
    /\ srcFile' = IF srcFile = SrcA THEN SrcB ELSE SrcA
    /\ UNCHANGED <<shared, tgtFile, locals, pc, clocks>>

\* Another program deletes the source workbook or moves it away.
RemoveSource ==
    /\ exists(srcFile)
    /\ srcFile' = Absent
    /\ UNCHANGED <<shared, tgtFile, locals, pc, clocks>>

----------------------------------------------------------------------------
(* The concurrent specification *)

\* The session state of lines 16-23, with the two files uploaded (lines
\* 177-190 set last_hash from the source).
Init ==
    /\ sync_active = FALSE
    /\ \E up \in Uploads : srcFile = up[1] /\ tgtFile = up[2]
    /\ last_hash = get_file_hash(srcFile)
    /\ last_sync_time = SyncLongAgo
    /\ observer = "none"
    /\ log_messages = <<"Application started. Select files to begin.">>
    /\ last_trigger = TriggerLongAgo
    /\ pc = [t \in Threads |-> IF t = "poll" THEN "off" ELSE "idle"]
    /\ start_time = [t \in Threads |-> SyncLongAgo]
    /\ frame = [t \in Threads |-> NoFrame]
    /\ hash_local = [t \in Threads |-> None]
    /\ wake = now

Next ==
    \/ SyncNow
    \/ start_sync
    \/ start_rejected
    \/ start_flag
    \/ start_watch
    \/ stop_sync
    \/ stop_join
    \/ stop_flag
    \/ \E event \in Events : on_modified(event)
    \/ om_hash
    \/ om_set
    \/ pc_active
    \/ pc_hash
    \/ pc_set
    \/ pc_sleep
    \/ \E t \in Threads : perform_sync(t)
    \/ Tick
    \/ EditSource
    \/ RemoveSource

Spec == Init /\ [][Next]_vars

----------------------------------------------------------------------------
(* The reconciliation on its own: every source and target sheet of the     *)
(* bounded universe, one context, the source never edited.                 *)

SourceLayouts == {<<>>, <<"key", "val">>, <<"key", "id">>}
TargetLayouts == {<<>>, <<"id", "val">>}

\* The rows under a header: a key, then a value or an empty cell per column.
RowsOf(cols) ==
    IF cols = <<>> THEN {}
    ELSE {r \in [1..Len(cols) -> Keys \cup Values] :
            /\ r[1] \in Keys
            /\ \A n \in 2..Len(cols) : r[n] \in Values}

SheetsOf(cols) ==
    {Sheet(cols, rows) :
        rows \in UNION {[1..n -> RowsOf(cols)] : n \in 0..MaxRows}}

SourceSheets == UNION {SheetsOf(cols) : cols \in SourceLayouts}
TargetSheets == UNION {SheetsOf(cols) : cols \in TargetLayouts}

InitReconcile ==
    /\ sync_active = FALSE
    /\ srcFile \in SourceSheets
    /\ tgtFile \in TargetSheets
    /\ last_hash = get_file_hash(srcFile)
    /\ last_sync_time = SyncLongAgo
    /\ observer = "none"
    /\ log_messages = <<"Application started. Select files to begin.">>
    /\ last_trigger = TriggerLongAgo
    /\ pc = [t \in Threads |-> IF t = "poll" THEN "off" ELSE "idle"]
    /\ start_time = [t \in Threads |-> SyncLongAgo]
    /\ frame = [t \in Threads |-> NoFrame]
    /\ hash_local = [t \in Threads |-> None]
    /\ wake = now

\* "Sync Now" with the cooldown over: lines 64-69 in one piece.
SyncNowDue ==
    /\ pc["ui"] = "idle"
    /\ ~InCooldown
    /\ last_sync_time' = now
    /\ Goto("ui", "ps_read_source")
    /\ UNCHANGED <<sync_active, last_hash, observer, log_messages, files,
                   locals, clocks>>

NextReconcile ==
    \/ SyncNowDue
    \/ ps_read_source("ui")
    \/ ps_read_target("ui")
    \/ ps_write("ui")
    \/ ps_synced("ui")
    \/ ps_nochange("ui")
    \/ except_PermissionError("ui")
    \/ except_Exception("ui")
    \/ Tick

SpecReconcile == InitReconcile /\ [][NextReconcile]_vars

----------------------------------------------------------------------------
(* log on its own: the three contexts calling log (lines 69, 94, 98, 102,  *)
(* 105 in any of them, 120 in the watcher, 160 in the poll loop, 137 and   *)
(* 154 in the script run), a call being the three statements of lines      *)
(* 30-32.  Messages are told apart by their ordinal: the first message of  *)
(* the session is 1, and a call logs the ordinal after that of the head,   *)
(* the latest message logged.                                              *)

MaxLogged == 24

\* The message the next call of log inserts.
NextMessage == log_messages[1] + 1

\* line 30, by a context that has reached one of its log calls
log_insert(t) ==
    /\ pc[t] = "idle"
    /\ NextMessage <= MaxLogged
    /\ log_messages' = Insert0(log_messages, NextMessage)
    /\ Goto(t, "log_len")
    /\ UNCHANGED <<sync_active, last_hash, last_sync_time, observer, files,
                   locals, clocks>>

\* line 31
log_len(t) ==
    /\ pc[t] = "log_len"
    /\ IF Len(log_messages) > LogCapacity THEN Goto(t, "log_pop")
       ELSE Goto(t, "idle")
    /\ UNCHANGED <<shared, files, locals, clocks>>

\* line 32
log_pop(t) ==
    /\ pc[t] = "log_pop"
    /\ log_messages' = Pop(log_messages)
    /\ Goto(t, "idle")
    /\ UNCHANGED <<sync_active, last_hash, last_sync_time, observer, files,
                   locals, clocks>>

InitLog ==
    /\ sync_active = FALSE
    /\ srcFile = SrcA
    /\ tgtFile = TgtA
    /\ last_hash = get_file_hash(srcFile)
    /\ last_sync_time = SyncLongAgo
    /\ observer = "none"
    /\ log_messages = <<1>>
    /\ last_trigger = TriggerLongAgo
    /\ pc = [t \in Threads |-> "idle"]
    /\ start_time = [t \in Threads |-> SyncLongAgo]
    /\ frame = [t \in Threads |-> NoFrame]
    /\ hash_local = [t \in Threads |-> None]
    /\ wake = now

NextLog ==
    \/ \E t \in Threads : log_insert(t)
    \/ \E t \in Threads : log_len(t)
    \/ \E t \in Threads : log_pop(t)

SpecLog == InitLog /\ [][NextLog]_vars

----------------------------------------------------------------------------
(* One change of the source under auto-sync: the observer runs, the poll   *)
(* loop is somewhere in its sleep, the source has just been saved with new *)
(* content (SrcB; last_hash is still that of SrcA) and is not saved again, *)
(* and nobody clicks.  The last attempt to sync (a click on "Sync Now",    *)
(* say) was at any time before the save.  The watchdog may report the one  *)
(* save with any number of events.                                         *)

InitOneChange ==
    /\ sync_active = TRUE
    /\ srcFile = SrcB
    /\ tgtFile = TgtA
    /\ last_hash = get_file_hash(SrcA)
    /\ last_sync_time \in SyncLongAgo..now
    /\ observer = "running"
    /\ log_messages = <<"Application started. Select files to begin.">>
    /\ last_trigger = TriggerLongAgo
    /\ pc = [t \in Threads |-> IF t = "poll" THEN "pc_sleep" ELSE "idle"]
    /\ start_time = [t \in Threads |-> SyncLongAgo]
    /\ frame = [t \in Threads |-> NoFrame]
    /\ hash_local = [t \in Threads |-> None]
    /\ wake \in now..(now + PollInterval)

\* perform_sync with both files in place: no step of it raises an exception
\* other than the PermissionError of line 92.
perform_sync_files(t) ==
    \/ ps_cooldown(t)
    \/ ps_clock(t)
    \/ ps_stamp(t)
    \/ ps_read_source(t)
    \/ ps_read_target(t)
    \/ ps_write(t)
    \/ ps_synced(t)
    \/ ps_nochange(t)
    \/ except_PermissionError(t)

NextOneChange ==
    \/ \E event \in Events : on_modified(event)
    \/ om_hash
    \/ om_set
    \/ pc_active
    \/ pc_hash
    \/ pc_set
    \/ pc_sleep
    \/ \E t \in {"watcher", "poll"} : perform_sync_files(t)
    \/ Tick

SpecOneChange == InitOneChange /\ [][NextOneChange]_vars

----------------------------------------------------------------------------
(* What the claims speak of, read off the two files *)

\* The context holds the outcome of lines 74-89 and has not yet written it.
AtResult(t) == pc[t] \in {"ps_write", "ps_nochange"}

SrcKeys == {srcFile.rows[i][1] : i \in 1..Len(srcFile.rows)}
SrcDataCols == {srcFile.cols[n] : n \in 2..Len(srcFile.cols)}

\* The last row of the source with key k, in file order.
LastRowOf(k) ==
    CHOOSE i \in 1..Len(srcFile.rows) :
        /\ srcFile.rows[i][1] = k
        /\ \A j \in (i+1)..Len(srcFile.rows) : srcFile.rows[j][1] # k

\* The value the source gives for key k and column c.
Effective(k, c) ==
    srcFile.rows[LastRowOf(k)][CHOOSE n \in 2..Len(srcFile.cols) : srcFile.cols[n] = c]

TgtCells == (1..Len(tgtFile.rows)) \X (1..Len(tgtFile.cols))

\* A target cell the source has a say on: a non-key column the source has,
\* in a row whose key the source has.
Comparable(idx, n) ==
    /\ n >= 2
    /\ tgtFile.rows[idx][1] \in SrcKeys
    /\ tgtFile.cols[n] \in SrcDataCols

\* The two values differ, missing being equal to missing.
Differs(idx, n) == tgtFile.rows[idx][n] # Effective(tgtFile.rows[idx][1], tgtFile.cols[n])

----------------------------------------------------------------------------
(* Claims on the reconciliation, under SpecReconcile *)

\* C3: idempotence.  Once a reconciliation has written the target and the
\* source is unchanged, the reconciliation the next perform_sync runs, that
\* of the two files as they stand, updates no cell.
C3_Idempotence ==
    \A t \in Threads :
        pc[t] = "ps_synced" =>
            Reconcile(read_excel(srcFile), read_excel(tgtFile)).update_count = 0

\* C4: the cell update rule.  A comparable target cell is overwritten with
\* the source value and counted iff the two values differ (missing equal to
\* missing); update_count is the number of differing comparable cells.
C4_CellUpdateRule ==
    \A t \in Threads :
        AtResult(t) =>
            /\ frame[t].update_count =
                   Cardinality({c \in TgtCells :
                                   Comparable(c[1], c[2]) /\ Differs(c[1], c[2])})
            /\ \A c \in TgtCells :
                   frame[t].df.rows[c[1]][c[2]] =
                       IF Comparable(c[1], c[2]) /\ Differs(c[1], c[2])
                       THEN Effective(tgtFile.rows[c[1]][1], tgtFile.cols[c[2]])
                       ELSE tgtFile.rows[c[1]][c[2]]

\* C5: keep-last deduplication.  The SourceMap has each key of the source
\* once, and after the reconciliation every comparable target cell holds the
\* value of the last source row with its key.
C5_KeepLast ==
    \A t \in Threads :
        AtResult(t) =>
            /\ DOMAIN SourceMap(read_excel(srcFile)) = SrcKeys
            /\ \A c \in TgtCells :
                   Comparable(c[1], c[2]) =>
                       frame[t].df.rows[c[1]][c[2]] =
                           Effective(tgtFile.rows[c[1]][1], tgtFile.cols[c[2]])

\* A reconciliation whose source has two rows with one key and different
\* values, in a column and for a key the target has.
C5_Witness ==
    /\ pc["ui"] = "ps_write"
    /\ \E i, j \in 1..Len(srcFile.rows) :
          /\ i < j
          /\ srcFile.rows[i][1] = srcFile.rows[j][1]
          /\ srcFile.rows[i][2] # srcFile.rows[j][2]
          /\ \E idx \in 1..Len(tgtFile.rows) :
                /\ tgtFile.rows[idx][1] = srcFile.rows[i][1]
                /\ Comparable(idx, 2)
                /\ tgtFile.rows[idx][2] = srcFile.rows[j][2]

\* C6: no rewrite on a no-op.  to_excel is reached with update_count > 0
\* only, a reconciliation with update_count = 0 ends at "No changes" and
\* leaves the target file alone, and the target file changes in no other step
\* than to_excel.
C6_NoRewriteOnNoop ==
    /\ [](\A t \in Threads :
            /\ pc[t] = "ps_write" => frame[t].update_count > 0
            /\ pc[t] = "ps_nochange" => frame[t].update_count = 0)
    /\ [][/\ \A t \in Threads :
                (pc[t] = "ps_nochange" /\ pc'[t] # pc[t]) => tgtFile' = tgtFile
          /\ tgtFile' # tgtFile =>
                \E t \in Threads :
                    /\ pc[t] = "ps_write" /\ pc'[t] = "ps_synced"
                    /\ frame[t].update_count > 0]_vars

\* A reconciliation that compared cells and found nothing to update.
C6_Witness ==
    /\ pc["ui"] = "ps_nochange"
    /\ \E c \in TgtCells : Comparable(c[1], c[2])

\* C7: the frame of the reconciliation.  Columns and their order, the number
\* of rows, the key column, rows whose key the source lacks and columns the
\* source lacks are as they were.
C7_ReconcileFrame ==
    \A t \in Threads :
        AtResult(t) =>
            /\ frame[t].df.cols = tgtFile.cols
            /\ Len(frame[t].df.rows) = Len(tgtFile.rows)
            /\ \A idx \in 1..Len(tgtFile.rows) :
                  /\ Len(frame[t].df.rows[idx]) = Len(tgtFile.cols)
                  /\ frame[t].df.rows[idx][1] = tgtFile.rows[idx][1]
                  /\ tgtFile.rows[idx][1] \notin SrcKeys =>
                        frame[t].df.rows[idx] = tgtFile.rows[idx]
                  /\ \A n \in 2..Len(tgtFile.cols) :
                        tgtFile.cols[n] \notin SrcDataCols =>
                            frame[t].df.rows[idx][n] = tgtFile.rows[idx][n]

\* A reconciliation that updates a cell while the target has a row whose key
\* the source lacks.
C7_Witness ==
    /\ pc["ui"] = "ps_write"
    /\ \E idx \in 1..Len(tgtFile.rows) : tgtFile.rows[idx][1] \notin SrcKeys

\* A table without data rows: a header only, or no rows and no columns.
EmptyTable(file) == file.rows = <<>>

\* C15: empty tables.  With the source or the target table empty, an attempt
\* reaches neither of the two handlers (no error is raised or logged) nor
\* to_excel (the target is not rewritten), and ends at "No changes" with
\* update_count = 0.
C15_EmptyTables ==
    (EmptyTable(srcFile) \/ EmptyTable(tgtFile)) =>
        \A t \in Threads :
            /\ pc[t] \notin {"except_PermissionError", "except_Exception",
                            "ps_write", "ps_synced"}
            /\ pc[t] = "ps_nochange" => frame[t].update_count = 0

----------------------------------------------------------------------------
(* Claims on the coordination, under Spec *)

\* The labels of perform_sync, and those of its load / diff / write body.
InPerformSync ==
    {"ps_cooldown", "ps_clock", "ps_stamp", "ps_read_source", "ps_read_target",
     "ps_write", "ps_synced", "ps_nochange", "except_PermissionError",
     "except_Exception"}
Reconciling == {"ps_read_source", "ps_read_target", "ps_write", "ps_synced"}
Handlers == {"except_PermissionError", "except_Exception"}

\* C1: mutual exclusion.  At most one context is inside the load / diff /
\* write body of perform_sync at any time.
C1_MutualExclusion ==
    Cardinality({t \in Threads : pc[t] \in Reconciling}) <= 1

\* Two stored times at least the cooldown apart, as far as the model tells:
\* a time kept at SyncLongAgo may be older still.
Apart(a, b) ==
    \/ a - b >= Cooldown
    \/ b - a >= Cooldown
    \/ a = SyncLongAgo
    \/ b = SyncLongAgo

\* C2: cooldown.  The start times (line 67) of two attempts that both went on
\* past the cooldown test are at least 2 seconds apart.
C2_Cooldown ==
    \A t, u \in Threads :
        (t # u /\ pc[t] = "ps_stamp" /\ pc[u] = "ps_stamp") =>
            Apart(start_time[t], start_time[u])

\* C8: no trigger after disabling.  With auto-sync off (stop_sync has set
\* sync_active to False and returned, or auto-sync was never on), neither the
\* poll loop nor the watcher is about to take a fingerprint of the source.
C8_NoTriggerAfterDisable ==
    ~sync_active => (pc["poll"] # "pc_hash" /\ pc["watcher"] # "om_hash")

\* C9: start_sync with the source or the target missing goes to the error
\* of line 133 and returns, with sync_active False, and with sync_active, the
\* observer and the poll loop as they were.
C9_StartRejected ==
    /\ [](pc["ui"] = "start_rejected" =>
            /\ ~sync_active
            /\ observer # "running"
            /\ ~(exists(srcFile) /\ exists(tgtFile)))
    /\ [][/\ (/\ pc["ui"] = "idle"
              /\ ~sync_active
              /\ pc'["ui"] \in {"start_flag", "start_rejected"}
              /\ ~(exists(srcFile) /\ exists(tgtFile)))
             => (/\ pc'["ui"] = "start_rejected"
                 /\ sync_active' = sync_active
                 /\ observer' = observer
                 /\ pc'["poll"] = pc["poll"])
          /\ (pc["ui"] = "start_rejected" /\ pc'["ui"] # "start_rejected")
             => (/\ pc'["ui"] = "idle"
                 /\ sync_active' = sync_active
                 /\ observer' = observer
                 /\ pc'["poll"] = pc["poll"])]_vars

\* start_sync is showing its error: a file is missing.
C9_Witness == pc["ui"] = "start_rejected"

\* C10: failure recovery.  An exception raised inside perform_sync lands in
\* one of its two handlers and never leaves the call; from a handler the call
\* returns to its caller; and a call made with the cooldown over goes on to
\* reconcile, whatever earlier attempts ended with.
C10_FailureRecovery ==
    /\ [](\A t \in Threads : pc[t] # "escaped")
    /\ [][\A t \in Threads :
            /\ (pc[t] \in Handlers /\ pc'[t] # pc[t]) => pc'[t] = ReturnTo(t)
            /\ (/\ pc[t] \in {"ps_read_source", "ps_read_target", "ps_write"}
                /\ pc'[t] \notin InPerformSync)
               => FALSE
            /\ (/\ pc[t] = "ps_cooldown"
                /\ pc'[t] # pc[t]
                /\ now - last_sync_time >= Cooldown)
               => pc'[t] = "ps_clock"]_vars

\* An attempt has failed on a missing file and its handler is reporting it,
\* while last_sync_time already carries that attempt's start.
C10_Witness ==
    \E t \in Threads : pc[t] = "except_Exception" /\ last_sync_time = now

\* The labels at which perform_sync has reconciled with success: the target
\* written (lines 93-96), or nothing to write (lines 98-99).
Succeeded == {"ps_synced", "ps_nochange"}

\* C11: last_hash and last_sync_time on success.  An attempt stores its own
\* start as last_sync_time, and when it returns from a successful
\* reconciliation, one that updated no cell included, last_hash is the
\* fingerprint of the source file.
C11_HashOnSuccess ==
    [][\A t \in Threads :
          /\ (pc[t] = "ps_stamp" /\ pc'[t] # pc[t]) => last_sync_time' = start_time[t]
          /\ (pc[t] \in Succeeded /\ pc'[t] = ReturnTo(t))
             => last_hash' = get_file_hash(srcFile')]_vars

\* C12: ownership of the shared state.  sync_active changes only in
\* start_sync / stop_sync, last_sync_time only at line 68 of perform_sync (a
\* step of the clock apart, which moves no context), and last_hash only at
\* line 95 of perform_sync, at the end of a reconciliation that wrote the
\* target: never in a step of on_modified or periodic_check themselves.
C12_StateOwnership ==
    [][/\ sync_active' # sync_active
             => pc["ui"] \in {"start_flag", "stop_flag"} /\ pc'["ui"] # pc["ui"]
       /\ (last_sync_time' # last_sync_time /\ pc' # pc)
             => \E t \in Threads : pc[t] = "ps_stamp" /\ pc'[t] = "ps_read_source"
       /\ last_hash' # last_hash
             => \E t \in Threads : pc[t] = "ps_synced" /\ pc'[t] = ReturnTo(t)]_vars

\* C14: last_sync_time never decreases.  No step of a context replaces
\* last_sync_time by an earlier time.  (Stored times are relative to the
\* present, which a step of a context leaves where it is; a step of the
\* clock moves no context and leaves the time stored, as an absolute time,
\* what it was.)
C14_MonotonicSyncTime ==
    [][pc' # pc => last_sync_time' >= last_sync_time]_vars

\* C17: the periodic poll.  A round of the poll loop, entered with auto-sync
\* on and the sleep of the round before over, calls perform_sync iff the
\* source can be read and its fingerprint differs from last_hash; otherwise
\* it leaves last_hash alone and calls nothing.  Either way the round ends
\* in a sleep of 5 seconds, which the next round waits out, and perform_sync
\* is called by the poll loop from nowhere else.
C17_PeriodicPoll ==
    [][/\ (pc["poll"] = "pc_active" /\ pc'["poll"] # "pc_active")
             => /\ wake <= now
                /\ pc'["poll"] = (IF sync_active THEN "pc_hash" ELSE "off")
       /\ (pc["poll"] = "pc_hash" /\ pc'["poll"] # "pc_hash")
             => IF exists(srcFile) /\ md5(srcFile) # last_hash
                THEN /\ pc'["poll"] = "ps_cooldown"
                     /\ last_hash' = last_hash
                ELSE /\ pc'["poll"] = "pc_sleep"
                     /\ wake' = now + PollInterval
                     /\ last_hash' = last_hash
       /\ (pc["poll"] # "ps_cooldown" /\ pc'["poll"] = "ps_cooldown")
             => pc["poll"] = "pc_hash"
       /\ (pc["poll"] = "pc_set" /\ pc'["poll"] # "pc_set")
             => /\ pc'["poll"] = "pc_sleep"
                /\ wake' = now + PollInterval
       /\ (pc["poll"] = "pc_sleep" /\ pc'["poll"] # "pc_sleep")
             => wake <= now]_vars

\* A round of the poll loop, past the test of line 157, takes the
\* fingerprint of a source that is no longer there.
C17_Witness ==
    /\ sync_active
    /\ pc["poll"] = "pc_hash"
    /\ ~exists(srcFile)

\* C18: the watcher's filter and debounce.  An event for a directory or for
\* another path changes nothing, and neither does an event for the source
\* that comes 3 seconds or less after the last one the handler accepted; the
\* handler goes on to take a fingerprint only for a source event outside
\* that window, which it records as the last accepted.  From there it calls
\* perform_sync only if the source can be read and its fingerprint differs
\* from last_hash, and it calls perform_sync from nowhere else.
C18_WatcherDebounce ==
    [][/\ \A event \in {"other", "directory"} :
              on_modified(event) => UNCHANGED vars
       /\ (on_modified("source") /\ now - last_trigger <= Debounce)
             => UNCHANGED vars
       /\ (pc["watcher"] = "idle" /\ pc'["watcher"] # "idle")
             => /\ pc'["watcher"] = "om_hash"
                /\ observer = "running"
                /\ now - last_trigger > Debounce
                /\ last_trigger' = now
       /\ (pc["watcher"] = "om_hash" /\ pc'["watcher"] # "om_hash")
             => /\ last_hash' = last_hash
                /\ pc'["watcher"] =
                      (IF exists(srcFile) /\ md5(srcFile) # last_hash
                       THEN "om_set" ELSE "idle")
       /\ (pc["watcher"] # "ps_cooldown" /\ pc'["watcher"] = "ps_cooldown")
             => pc["watcher"] = "om_set"]_vars

\* The handler accepted an event 3 seconds ago and is free: an event for the
\* source arriving now is dropped.
C18_Witness ==
    /\ observer = "running"
    /\ pc["watcher"] = "idle"
    /\ last_trigger = now - Debounce

\* C19: poll cancellation.  The poll loop tests sync_active once per round,
\* on entry: finding auto-sync off it ends there, before any fingerprint of
\* that round, and it ends in no other way: with auto-sync on it goes on.
C19_PollCancellation ==
    [][/\ (pc["poll"] = "pc_active" /\ pc'["poll"] # "pc_active" /\ ~sync_active)
             => pc'["poll"] = "off"
       /\ (pc["poll"] \notin {"off", "crashed"} /\ pc'["poll"] \in {"off", "crashed"})
             => /\ pc["poll"] = "pc_active"
                /\ ~sync_active]_vars

----------------------------------------------------------------------------
(* Claims on one change of the source, under SpecOneChange *)

\* The labels of perform_sync past the cooldown test of line 64: the attempt
\* reconciles.
Attempting == InPerformSync \ {"ps_cooldown"}

\* C16: one reconciliation per change.  Of the watcher and the poll loop, at
\* most one reconciles for the one change: the two are never both past the
\* cooldown test, and once a reconciliation has written the target for the
\* change neither starts another.
C16_OneReconciliationPerChange ==
    /\ ~(pc["watcher"] \in Attempting /\ pc["poll"] \in Attempting)
    /\ tgtFile # TgtA =>
          \A t \in {"watcher", "poll"} :
              pc[t] \notin {"ps_clock", "ps_stamp", "ps_read_source",
                            "ps_read_target", "ps_write", "ps_nochange"}

\* No call of perform_sync is under way, and none is about to be made with
\* a fingerprint already taken.
Quiescent ==
    /\ pc["ui"] = "idle"
    /\ pc["watcher"] = "idle"
    /\ pc["poll"] \in {"pc_active", "pc_hash", "pc_sleep", "off", "crashed"}

\* C20: no lost change.  last_hash is not left at the fingerprint of a source
\* version that no reconciliation has processed: when last_hash is the
\* fingerprint of the source and no call of perform_sync is under way, the
\* target holds what a reconciliation with that source gives (from then on
\* neither the watcher nor the poll loop sees a change to act on).
C20_NoLostChange ==
    (/\ Quiescent
     /\ exists(srcFile)
     /\ exists(tgtFile)
     /\ last_hash = get_file_hash(srcFile))
        => Reconcile(read_excel(srcFile), read_excel(tgtFile)).update_count = 0

----------------------------------------------------------------------------
(* Claims on the log, under SpecLog *)

\* The log after the messages 1..n, logged one call after the other.
RECURSIVE LogAll(_)
LogAll(n) == IF n = 1 THEN <<1>> ELSE Log(LogAll(n - 1), n)

\* C13: the bounded ordered log.  Once every call of log has returned, the
\* log holds at most 20 messages, most recent first, and they are the latest
\* messages logged, as many as were logged up to 20: what the calls give
\* when made one after the other.
C13_BoundedLog ==
    (\A t \in Threads : pc[t] = "idle") =>
        /\ Len(log_messages) <= LogCapacity
        /\ log_messages = LogAll(log_messages[1])

====
